---------------------------- MODULE Spec2Model ----------------------------
(***************************************************************************)
(* ViewportCollector of react-viewport-utils: the collector samples the    *)
(* window's scroll position and geometry in its event handlers, and a      *)
(* self-rescheduling animation-frame tick publishes the sampled state to   *)
(* the consumer's onUpdate callback (and, debounced, to onIdledUpdate)     *)
(* whenever it differs from the state published last.                      *)
(***************************************************************************)
EXTENDS Integers, Sequences, FiniteSets, TLC

(***************************************************************************)
(* Bounds of the environment.                                              *)
(***************************************************************************)
\* horizontal scroll offsets the window reports: 0..MaxX
MaxX == 1

ScrollXs == 0 .. MaxX

\* vertical scroll offsets the window reports
ScrollYs == {0, 30}

\* the sampler alone is run on more vertical offsets: the multiples of 10
\* up to 10 * MaxY
MaxY == 5

SampleYs == { 10 * i : i \in 0 .. MaxY }

\* the geometries the window takes: what window and document.documentElement
\* report for each
Geometries ==
    { [ documentElement |-> TRUE,
        innerWidth |-> 1024, innerHeight |-> 768,
        outerWidth |-> 1024, outerHeight |-> 850,
        clientWidth |-> 1009, clientHeight |-> 768,
        scrollWidth |-> 1009, scrollHeight |-> 2000,
        offsetWidth |-> 1009, offsetHeight |-> 1900 ],
      [ documentElement |-> TRUE,
        innerWidth |-> 800, innerHeight |-> 600,
        outerWidth |-> 800, outerHeight |-> 682,
        clientWidth |-> 800, clientHeight |-> 600,
        scrollWidth |-> 1009, scrollHeight |-> 600,
        offsetWidth |-> 800, offsetHeight |-> 580 ] }

\* the geometry of the window when the collector is constructed
InitialGeometry == CHOOSE g \in Geometries : g.innerWidth = 1024

\* what a consumer's onUpdate callback does when it does not fail: it returns,
\* or it tears the collector down synchronously and returns
Outcomes == {"return", "unmount"}

\* what a failing onUpdate callback does: it throws
Faults == {"throw"}

(***************************************************************************)
(* Pure functions.                                                         *)
(***************************************************************************)
max(a, b) == IF a >= b THEN a ELSE b

createEmptyDimensionState ==
    [ width |-> 0, height |-> 0,
      clientWidth |-> 0, clientHeight |-> 0,
      outerWidth |-> 0, outerHeight |-> 0,
      documentWidth |-> 0, documentHeight |-> 0 ]

\* getClientDimensions with width and height read from the window's outer size
getClientDimensionsOuter(w) ==
    IF ~w.documentElement
    THEN createEmptyDimensionState
    ELSE [ width |-> w.outerWidth, height |-> w.outerHeight,
           clientWidth |-> w.clientWidth, clientHeight |-> w.clientHeight,
           outerWidth |-> w.outerWidth, outerHeight |-> w.outerHeight,
           documentWidth |-> max(max(w.scrollWidth, w.offsetWidth), w.clientWidth),
           documentHeight |-> max(max(w.scrollHeight, w.offsetHeight), w.clientHeight) ]

\* w: what window and document report at the moment of the call
getClientDimensions(w) ==
    IF ~w.documentElement
    THEN createEmptyDimensionState
    ELSE [ width |-> w.innerWidth, height |-> w.innerHeight,
           clientWidth |-> w.clientWidth, clientHeight |-> w.clientHeight,
           outerWidth |-> w.outerWidth, outerHeight |-> w.outerHeight,
           documentWidth |-> max(max(w.scrollWidth, w.offsetWidth), w.clientWidth),
           documentHeight |-> max(max(w.scrollHeight, w.offsetHeight), w.clientHeight) ]

\* typeof window is never 'undefined' here: the collector is mounted in a browser
createInitDimensionsState(w) == getClientDimensions(w)

createInitScrollState ==
    [ x |-> 0, y |-> 0,
      isScrollingUp |-> FALSE, isScrollingDown |-> FALSE,
      isScrollingLeft |-> FALSE, isScrollingRight |-> FALSE,
      xTurn |-> 0, yTurn |-> 0,
      xDTurn |-> 0, yDTurn |-> 0 ]

\* the default branch (throw) needs none of <, >, = to hold: not an integer case
isScrollingLeft(x, prev) ==
    CASE x < prev.x -> TRUE
      [] x > prev.x -> FALSE
      [] x = prev.x -> prev.isScrollingLeft

\* isScrollingUp with the equal case taken for a move up (y <= prev.y)
isScrollingUpOnEqual(y, prev) ==
    CASE y <= prev.y -> TRUE
      [] y > prev.y -> FALSE

\* isScrollingUp with the comparisons swapped
isScrollingUpSwapped(y, prev) ==
    CASE y > prev.y -> TRUE
      [] y < prev.y -> FALSE
      [] y = prev.y -> prev.isScrollingUp

isScrollingUp(y, prev) ==
    CASE y < prev.y -> TRUE
      [] y > prev.y -> FALSE
      [] y = prev.y -> prev.isScrollingUp

ScrollFields ==
    { "x", "y", "xTurn", "yTurn", "xDTurn", "yDTurn",
      "isScrollingUp", "isScrollingDown", "isScrollingLeft", "isScrollingRight" }

DimensionFields ==
    { "width", "height", "clientWidth", "clientHeight",
      "outerWidth", "outerHeight", "documentWidth", "documentHeight" }

\* field-wise shallow equality of two scroll states
shallowEqualScroll(a, b) == \A f \in ScrollFields : a[f] = b[f]

\* field-wise shallow equality of two dimension states
shallowEqualDimensions(a, b) == \A f \in DimensionFields : a[f] = b[f]

\* handleScroll without the assignment of isScrollingDown (line 175)
handleScrollStateNoDown(s, x, y) ==
    LET left == isScrollingLeft(x, s)
        s1 == [s EXCEPT !.isScrollingLeft = left, !.isScrollingRight = ~left]
        up == isScrollingUp(y, s1)
        s2 == [s1 EXCEPT !.isScrollingUp = up]
        s3 == [s2 EXCEPT
                 !.xTurn = IF s2.isScrollingLeft = s.isScrollingLeft
                           THEN s.xTurn ELSE x,
                 !.yTurn = IF s2.isScrollingUp = s.isScrollingUp
                           THEN s.yTurn ELSE y]
        s4 == [s3 EXCEPT !.xDTurn = x - s3.xTurn, !.yDTurn = y - s3.yTurn]
    IN  [s4 EXCEPT !.x = x, !.y = y]

\* handleScroll with the previous flags read after the new ones are assigned
\* (lines 164-169 moved below line 175): no flip is ever seen
handleScrollStateLateRead(s, x, y) ==
    LET left == isScrollingLeft(x, s)
        s1 == [s EXCEPT !.isScrollingLeft = left, !.isScrollingRight = ~left]
        up == isScrollingUp(y, s1)
        s2 == [s1 EXCEPT !.isScrollingUp = up, !.isScrollingDown = ~up]
        s3 == [s2 EXCEPT
                 !.xTurn = IF s2.isScrollingLeft = s2.isScrollingLeft
                           THEN s.xTurn ELSE x,
                 !.yTurn = IF s2.isScrollingUp = s2.isScrollingUp
                           THEN s.yTurn ELSE y]
        s4 == [s3 EXCEPT !.xDTurn = x - s3.xTurn, !.yDTurn = y - s3.yTurn]
    IN  [s4 EXCEPT !.x = x, !.y = y]

\* handleScroll with the deltas taken before the turns are updated
\* (lines 182-183 moved above line 177)
handleScrollStateEarlyDelta(s, x, y) ==
    LET left == isScrollingLeft(x, s)
        s1 == [s EXCEPT !.isScrollingLeft = left, !.isScrollingRight = ~left]
        up == isScrollingUp(y, s1)
        s2 == [s1 EXCEPT !.isScrollingUp = up, !.isScrollingDown = ~up]
        s3 == [s2 EXCEPT !.xDTurn = x - s2.xTurn, !.yDTurn = y - s2.yTurn]
        s4 == [s3 EXCEPT
                 !.xTurn = IF s3.isScrollingLeft = s.isScrollingLeft
                           THEN s.xTurn ELSE x,
                 !.yTurn = IF s3.isScrollingUp = s.isScrollingUp
                           THEN s.yTurn ELSE y]
    IN  [s4 EXCEPT !.x = x, !.y = y]

\* handleScroll that never moves the turns (without lines 177-180)
handleScrollStateFixedTurn(s, x, y) ==
    LET left == isScrollingLeft(x, s)
        s1 == [s EXCEPT !.isScrollingLeft = left, !.isScrollingRight = ~left]
        up == isScrollingUp(y, s1)
        s2 == [s1 EXCEPT !.isScrollingUp = up, !.isScrollingDown = ~up]
        s4 == [s2 EXCEPT !.xDTurn = x - s2.xTurn, !.yDTurn = y - s2.yTurn]
    IN  [s4 EXCEPT !.x = x, !.y = y]

\* the body of handleScroll on the scroll state s, for the sample (x, y) that
\* getNodeScroll() returns: the assignments in the order of the code
\* (s1 after lines 171-172, s2 after 174-175, s3 after 177-180, s4 after 182-183)
handleScrollState(s, x, y) ==
    LET prevIsScrollingLeft == s.isScrollingLeft
        prevIsScrollingUp == s.isScrollingUp
        prevXTurn == s.xTurn
        prevYTurn == s.yTurn
        left == isScrollingLeft(x, s)
        s1 == [s EXCEPT !.isScrollingLeft = left, !.isScrollingRight = ~left]
        up == isScrollingUp(y, s1)
        s2 == [s1 EXCEPT !.isScrollingUp = up, !.isScrollingDown = ~up]
        s3 == [s2 EXCEPT
                 !.xTurn = IF s2.isScrollingLeft = prevIsScrollingLeft
                           THEN prevXTurn ELSE x,
                 !.yTurn = IF s2.isScrollingUp = prevIsScrollingUp
                           THEN prevYTurn ELSE y]
        s4 == [s3 EXCEPT !.xDTurn = x - s3.xTurn, !.yDTurn = y - s3.yTurn]
    IN  [s4 EXCEPT !.x = x, !.y = y]


\* getPublicDimensions without the memoization: a new copy on every call
getPublicDimensionsUnmemoized(cache, dimensions) ==
    [result |-> dimensions,
     cache |-> << [lastArg |-> dimensions, lastResult |-> dimensions] >>,
     copied |-> TRUE]

\* memoize(fn, isEqual) of memoize-one around a copying fn: cache holds the
\* last argument and the last result (empty before the first call); the call
\* returns the cached result, the very object the last call returned, when
\* isEqual finds the argument equal to the last one, and otherwise runs fn,
\* which makes a new object, a copy of the argument (copied)
getPublicScroll(cache, scroll) ==
    IF cache # <<>> /\ shallowEqualScroll(scroll, cache[1].lastArg)
    THEN [result |-> cache[1].lastResult, cache |-> cache, copied |-> FALSE]
    ELSE [result |-> scroll,
          cache |-> << [lastArg |-> scroll, lastResult |-> scroll] >>,
          copied |-> TRUE]

getPublicDimensions(cache, dimensions) ==
    IF cache # <<>> /\ shallowEqualDimensions(dimensions, cache[1].lastArg)
    THEN [result |-> cache[1].lastResult, cache |-> cache, copied |-> FALSE]
    ELSE [result |-> dimensions,
          cache |-> << [lastArg |-> dimensions, lastResult |-> dimensions] >>,
          copied |-> TRUE]

\* the sides of the public state getPropsFromState made a new object for
copiedSides(lastScroll, lastDimensions, cacheS, cacheD) ==
    { side \in {"scroll"} : getPublicScroll(cacheS, lastScroll).copied }
    \cup { side \in {"dimensions"} :
               getPublicDimensions(cacheD, lastDimensions).copied }

\* getPropsFromState on the last-synced copies, with the two memo caches
getPropsFromState(lastScroll, lastDimensions, cacheS, cacheD) ==
    [ scroll |-> getPublicScroll(cacheS, lastScroll).result,
      dimensions |-> getPublicDimensions(cacheD, lastDimensions).result ]

\* what syncState gives when it invokes onUpdate with the viewport v
syncedWith(c, lastScroll, lastDimensions, v, scrollDidUpdate, dimensionsDidUpdate) ==
    [ lastSyncedScrollState |-> lastScroll,
      lastSyncedDimensionsState |-> lastDimensions,
      memoScroll |-> getPublicScroll(c.memoScroll, v.scroll).cache,
      memoDimensions |-> getPublicDimensions(c.memoDimensions, v.dimensions).cache,
      copied |-> copiedSides(v.scroll, v.dimensions,
                             c.memoScroll, c.memoDimensions),
      onUpdate |-> << [ viewport |-> v,
                        scrollDidUpdate |-> scrollDidUpdate,
                        dimensionsDidUpdate |-> dimensionsDidUpdate ] >>,
      updateOnIdle |-> << [ viewport |-> v,
                            scrollDidUpdate |-> scrollDidUpdate,
                            dimensionsDidUpdate |-> dimensionsDidUpdate ] >> ]

\* syncState without the test of line 225: it publishes on every call
syncStateUngated(c) ==
    LET scrollDidUpdate ==
            ~shallowEqualScroll(c.lastSyncedScrollState, c.scrollState)
        dimensionsDidUpdate ==
            ~shallowEqualDimensions(c.lastSyncedDimensionsState, c.dimensionsState)
        lastScroll == IF scrollDidUpdate
                      THEN c.scrollState ELSE c.lastSyncedScrollState
        lastDimensions == IF dimensionsDidUpdate
                          THEN c.dimensionsState ELSE c.lastSyncedDimensionsState
    IN  syncedWith(c, lastScroll, lastDimensions,
                   getPropsFromState(lastScroll, lastDimensions,
                                     c.memoScroll, c.memoDimensions),
                   scrollDidUpdate, dimensionsDidUpdate)

\* syncState that builds the public state before it replaces the last-synced
\* copies (line 226 moved above line 217)
syncStateStale(c) ==
    LET scrollDidUpdate ==
            ~shallowEqualScroll(c.lastSyncedScrollState, c.scrollState)
        dimensionsDidUpdate ==
            ~shallowEqualDimensions(c.lastSyncedDimensionsState, c.dimensionsState)
        lastScroll == IF scrollDidUpdate
                      THEN c.scrollState ELSE c.lastSyncedScrollState
        lastDimensions == IF dimensionsDidUpdate
                          THEN c.dimensionsState ELSE c.lastSyncedDimensionsState
    IN  IF scrollDidUpdate \/ dimensionsDidUpdate
        THEN syncedWith(c, lastScroll, lastDimensions,
                        getPropsFromState(c.lastSyncedScrollState,
                                          c.lastSyncedDimensionsState,
                                          c.memoScroll, c.memoDimensions),
                        scrollDidUpdate, dimensionsDidUpdate)
        ELSE [ lastSyncedScrollState |-> lastScroll,
               lastSyncedDimensionsState |-> lastDimensions,
               memoScroll |-> c.memoScroll,
               memoDimensions |-> c.memoDimensions,
               copied |-> {},
               onUpdate |-> <<>>,
               updateOnIdle |-> <<>> ]

\* syncState with the test of line 225 on scrollDidUpdate alone
syncStateScrollOnly(c) ==
    LET scrollDidUpdate ==
            ~shallowEqualScroll(c.lastSyncedScrollState, c.scrollState)
        dimensionsDidUpdate ==
            ~shallowEqualDimensions(c.lastSyncedDimensionsState, c.dimensionsState)
        lastScroll == IF scrollDidUpdate
                      THEN c.scrollState ELSE c.lastSyncedScrollState
        lastDimensions == IF dimensionsDidUpdate
                          THEN c.dimensionsState ELSE c.lastSyncedDimensionsState
    IN  IF scrollDidUpdate
        THEN syncedWith(c, lastScroll, lastDimensions,
                        getPropsFromState(lastScroll, lastDimensions,
                                          c.memoScroll, c.memoDimensions),
                        scrollDidUpdate, dimensionsDidUpdate)
        ELSE [ lastSyncedScrollState |-> lastScroll,
               lastSyncedDimensionsState |-> lastDimensions,
               memoScroll |-> c.memoScroll,
               memoDimensions |-> c.memoDimensions,
               copied |-> {},
               onUpdate |-> <<>>,
               updateOnIdle |-> <<>> ]

\* syncState that keeps the last-synced copies as they are (without lines
\* 217-223) and publishes the raw state
syncStateKeepsCopies(c) ==
    LET scrollDidUpdate ==
            ~shallowEqualScroll(c.lastSyncedScrollState, c.scrollState)
        dimensionsDidUpdate ==
            ~shallowEqualDimensions(c.lastSyncedDimensionsState, c.dimensionsState)
        synced == syncedWith(c, c.lastSyncedScrollState,
                             c.lastSyncedDimensionsState,
                             getPropsFromState(c.scrollState, c.dimensionsState,
                                               c.memoScroll, c.memoDimensions),
                             scrollDidUpdate, dimensionsDidUpdate)
    IN  IF scrollDidUpdate \/ dimensionsDidUpdate
        THEN synced
        ELSE [ synced EXCEPT !.onUpdate = <<>>, !.updateOnIdle = <<>>,
                             !.copied = {} ]

\* syncState that gives the callbacks the two flags in each other's place
\* (lines 228-229 and 232-233)
syncStateFlagsSwapped(c) ==
    LET scrollDidUpdate ==
            ~shallowEqualScroll(c.lastSyncedScrollState, c.scrollState)
        dimensionsDidUpdate ==
            ~shallowEqualDimensions(c.lastSyncedDimensionsState, c.dimensionsState)
        lastScroll == IF scrollDidUpdate
                      THEN c.scrollState ELSE c.lastSyncedScrollState
        lastDimensions == IF dimensionsDidUpdate
                          THEN c.dimensionsState ELSE c.lastSyncedDimensionsState
        synced == syncedWith(c, lastScroll, lastDimensions,
                             getPropsFromState(lastScroll, lastDimensions,
                                               c.memoScroll, c.memoDimensions),
                             dimensionsDidUpdate, scrollDidUpdate)
    IN  IF scrollDidUpdate \/ dimensionsDidUpdate
        THEN synced
        ELSE [ synced EXCEPT !.onUpdate = <<>>, !.updateOnIdle = <<>>,
                             !.copied = {} ]

\* syncState that calls updateOnIdle with both flags set (lines 232-233)
syncStateIdleAllFlags(c) ==
    LET scrollDidUpdate ==
            ~shallowEqualScroll(c.lastSyncedScrollState, c.scrollState)
        dimensionsDidUpdate ==
            ~shallowEqualDimensions(c.lastSyncedDimensionsState, c.dimensionsState)
        lastScroll == IF scrollDidUpdate
                      THEN c.scrollState ELSE c.lastSyncedScrollState
        lastDimensions == IF dimensionsDidUpdate
                          THEN c.dimensionsState ELSE c.lastSyncedDimensionsState
        synced == syncedWith(c, lastScroll, lastDimensions,
                             getPropsFromState(lastScroll, lastDimensions,
                                               c.memoScroll, c.memoDimensions),
                             scrollDidUpdate, dimensionsDidUpdate)
    IN  IF scrollDidUpdate \/ dimensionsDidUpdate
        THEN [ synced EXCEPT !.updateOnIdle[1].scrollDidUpdate = TRUE,
                             !.updateOnIdle[1].dimensionsDidUpdate = TRUE ]
        ELSE [ synced EXCEPT !.onUpdate = <<>>, !.updateOnIdle = <<>>,
                             !.copied = {} ]

\* syncState with the call of updateOnIdle outside the test of line 225
\* (lines 231-234 moved below line 235)
syncStateIdleUngated(c) ==
    LET scrollDidUpdate ==
            ~shallowEqualScroll(c.lastSyncedScrollState, c.scrollState)
        dimensionsDidUpdate ==
            ~shallowEqualDimensions(c.lastSyncedDimensionsState, c.dimensionsState)
        lastScroll == IF scrollDidUpdate
                      THEN c.scrollState ELSE c.lastSyncedScrollState
        lastDimensions == IF dimensionsDidUpdate
                          THEN c.dimensionsState ELSE c.lastSyncedDimensionsState
        synced == syncedWith(c, lastScroll, lastDimensions,
                             getPropsFromState(lastScroll, lastDimensions,
                                               c.memoScroll, c.memoDimensions),
                             scrollDidUpdate, dimensionsDidUpdate)
    IN  IF scrollDidUpdate \/ dimensionsDidUpdate
        THEN synced
        ELSE [ synced EXCEPT !.onUpdate = <<>> ]

\* syncState on the collector's fields c: the new last-synced copies, the memo
\* caches, the sides of the public state that are new objects (copied), and
\* the sequences of argument lists props.onUpdate is invoked with (onUpdate)
\* and, if onUpdate returns, this.updateOnIdle is called with (updateOnIdle)
syncState(c) ==
    LET scrollDidUpdate ==
            ~shallowEqualScroll(c.lastSyncedScrollState, c.scrollState)
        dimensionsDidUpdate ==
            ~shallowEqualDimensions(c.lastSyncedDimensionsState, c.dimensionsState)
        lastScroll == IF scrollDidUpdate
                      THEN c.scrollState ELSE c.lastSyncedScrollState
        lastDimensions == IF dimensionsDidUpdate
                          THEN c.dimensionsState ELSE c.lastSyncedDimensionsState
        publicState == getPropsFromState(lastScroll, lastDimensions,
                                         c.memoScroll, c.memoDimensions)
        args == [ viewport |-> publicState,
                  scrollDidUpdate |-> scrollDidUpdate,
                  dimensionsDidUpdate |-> dimensionsDidUpdate ]
    IN  [ lastSyncedScrollState |-> lastScroll,
          lastSyncedDimensionsState |-> lastDimensions,
          memoScroll
          |-> IF scrollDidUpdate \/ dimensionsDidUpdate
              THEN getPublicScroll(c.memoScroll, lastScroll).cache
              ELSE c.memoScroll,
          memoDimensions
          |-> IF scrollDidUpdate \/ dimensionsDidUpdate
              THEN getPublicDimensions(c.memoDimensions, lastDimensions).cache
              ELSE c.memoDimensions,
          copied
          |-> IF scrollDidUpdate \/ dimensionsDidUpdate
              THEN copiedSides(lastScroll, lastDimensions,
                               c.memoScroll, c.memoDimensions)
              ELSE {},
          onUpdate
          |-> IF scrollDidUpdate \/ dimensionsDidUpdate THEN << args >> ELSE <<>>,
          updateOnIdle
          |-> IF scrollDidUpdate \/ dimensionsDidUpdate THEN << args >> ELSE <<>> ]

(***************************************************************************)
(* State.                                                                  *)
(***************************************************************************)
VARIABLES
    phase,                      \* "constructed", "mounted" or "unmounted"
    win,                        \* what window and document report now
    scrollState,                \* this.scrollState
    dimensionsState,            \* this.dimensionsState
    lastSyncedScrollState,      \* this.lastSyncedScrollState
    lastSyncedDimensionsState,  \* this.lastSyncedDimensionsState
    componentMightHaveUpdated,  \* the dirty flag (undefined reads as false)
    memoScroll,                 \* the cache of getPublicScroll
    memoDimensions,             \* the cache of getPublicDimensions
    pendingFrames,              \* animation-frame requests for tick not yet run
    tickIdLive,                 \* this.tickId names a pending request
    resizeTimer,                \* the timer of the debounced handleResize runs
    idleTimer,                  \* the timer of updateOnIdle: << >> or <<args>>
    \* history of what the consumer and the environment saw
    lastOp,                     \* the operation that ran last
    onUpdateCalls,              \* the onUpdate invocations it made (argument lists)
    onIdledUpdateCalls,         \* the onIdledUpdate invocations it made
    prev,                       \* what it found: the values, before it ran, of
                                \* phase, scrollState, componentMightHaveUpdated,
                                \* delivered and scrollsSinceTick
    delivered,                  \* << >> or the viewport the last onUpdate got
    copied,                     \* the sides of the viewport the operation that ran
                                \* last made new objects for
    scrollsSinceTick,           \* handleScroll runs since the last tick: 0, 1,
                                \* or 2 for two or more
    bursts                      \* << >>, or where the debounce timers are
                                \* observed what their last bursts were

vars ==
    << phase, win, scrollState, dimensionsState,
       lastSyncedScrollState, lastSyncedDimensionsState,
       componentMightHaveUpdated, memoScroll, memoDimensions, pendingFrames,
       tickIdLive, resizeTimer, idleTimer, lastOp, onUpdateCalls,
       onIdledUpdateCalls, prev, delivered, copied, scrollsSinceTick,
       bursts >>

envVars == << win >>
rawVars == << scrollState, dimensionsState >>
syncedVars ==
    << lastSyncedScrollState, lastSyncedDimensionsState, memoScroll, memoDimensions >>
frameVars == << pendingFrames, tickIdLive >>

\* the state an operation starts in, as far as the history keeps it
found ==
    [ phase |-> phase,
      scrollState |-> scrollState,
      componentMightHaveUpdated |-> componentMightHaveUpdated,
      delivered |-> delivered,
      scrollsSinceTick |-> scrollsSinceTick ]

\* what every operation records of the state it starts in
Observed(op) ==
    /\ lastOp' = op
    /\ prev' = found

\* an operation that invokes no consumer callback
NoCallback ==
    /\ onUpdateCalls' = <<>>
    /\ onIdledUpdateCalls' = <<>>
    /\ delivered' = delivered
    /\ copied' = {}

\* one more, with 2 standing for two or more
more(n) == IF n = 0 THEN 1 ELSE 2

\* what is recorded of the bursts of calls the two debounced functions get (a
\* burst begins with a call that finds the timer not running and lasts until
\* the next such call): for handleResize the calls of the burst (resizes) and
\* the runs of the handler's body since it began (reads); for updateOnIdle the
\* calls of the burst (publications), the invocations of onIdledUpdate since
\* it began (idles) and the arguments of the last onUpdate invocation
NoBursts ==
    [ resizes |-> 0, reads |-> 0, publications |-> 0, idles |-> 0,
      lastOnUpdate |-> <<>> ]

\* the record is kept only where an observer is attached
Recorded(b) == bursts' = IF bursts = <<>> THEN <<>> ELSE << b >>

\* the collector's fields as syncState reads them
collector ==
    [ scrollState |-> scrollState,
      dimensionsState |-> dimensionsState,
      lastSyncedScrollState |-> lastSyncedScrollState,
      lastSyncedDimensionsState |-> lastSyncedDimensionsState,
      memoScroll |-> memoScroll,
      memoDimensions |-> memoDimensions ]

\* the state after the constructor
Constructed ==
    /\ phase = "constructed"
    /\ win = InitialGeometry
    /\ scrollState = createInitScrollState
    /\ dimensionsState = createInitDimensionsState(win)
    /\ lastSyncedDimensionsState = dimensionsState
    /\ lastSyncedScrollState = scrollState
    /\ componentMightHaveUpdated = FALSE
    /\ memoScroll = <<>>
    /\ memoDimensions = <<>>
    /\ pendingFrames = 0
    /\ tickIdLive = FALSE
    /\ resizeTimer = FALSE
    /\ idleTimer = <<>>
    /\ lastOp = "constructor"
    /\ onUpdateCalls = <<>>
    /\ onIdledUpdateCalls = <<>>
    /\ delivered = <<>>
    /\ copied = {}
    /\ scrollsSinceTick = 0
    /\ prev = found

Init == Constructed /\ bursts = <<>>

\* the state after the constructor, with the debounce timers observed
InitObserved == Constructed /\ bursts = << NoBursts >>

(***************************************************************************)
(* Operations.                                                             *)
(***************************************************************************)
\* raf.cancel(this.tickId): the request tickId names is dropped if it is still
\* pending; the id of a request that already ran names nothing
cancelFrame(pending, live) == IF live THEN pending - 1 ELSE pending

\* a call of a function wrapped by simpleDebounce while its timer is in the
\* state timer (running or not): the timer is restarted, so a burst of calls
\* runs the function once
simpleDebounce(timer) == TRUE

\* a call, with the arguments args, of a function wrapped by debounceOnUpdate
\* while its timer is in the state timer (<< >> when not running): the timer
\* is restarted and will run the function with the most recent arguments
debounceOnUpdate(timer, args) == << args >>

\* componentDidMount: the listeners are registered and the first frame requested
componentDidMount ==
    /\ phase = "constructed"
    /\ phase' = "mounted"
    /\ pendingFrames' = pendingFrames + 1
    /\ tickIdLive' = TRUE
    /\ Observed("componentDidMount") /\ NoCallback
    /\ UNCHANGED << envVars, rawVars, syncedVars, componentMightHaveUpdated,
                    resizeTimer, idleTimer, scrollsSinceTick, bursts >>

\* componentWillUnmount, called by React between two frames: the listeners are
\* removed and the frame tickId names is cancelled; no timer is cleared
componentWillUnmount ==
    /\ phase = "mounted"
    /\ phase' = "unmounted"
    /\ pendingFrames' = cancelFrame(pendingFrames, tickIdLive)
    /\ tickIdLive' = FALSE
    /\ Observed("componentWillUnmount") /\ NoCallback
    /\ UNCHANGED << envVars, rawVars, syncedVars, componentMightHaveUpdated,
                    resizeTimer, idleTimer, scrollsSinceTick, bursts >>

\* handleScroll without line 188: the dirty flag is not set
handleScrollUnmarked(x, y) ==
    /\ phase = "mounted"
    /\ scrollState' = handleScrollState(scrollState, x, y)
    /\ scrollsSinceTick' = IF scrollsSinceTick = 0 THEN 1 ELSE 2
    /\ Observed("handleScroll") /\ NoCallback
    /\ UNCHANGED << phase, envVars, dimensionsState, syncedVars, frameVars,
                    componentMightHaveUpdated, resizeTimer, idleTimer, bursts >>

\* the scroll listener, for the offsets (x, y) the window reports
handleScroll(x, y) ==
    /\ phase = "mounted"
    /\ scrollState' = handleScrollState(scrollState, x, y)
    /\ componentMightHaveUpdated' = TRUE
    /\ scrollsSinceTick' = IF scrollsSinceTick = 0 THEN 1 ELSE 2
    /\ Observed("handleScroll") /\ NoCallback
    /\ UNCHANGED << phase, envVars, dimensionsState, syncedVars, frameVars,
                    resizeTimer, idleTimer, bursts >>

\* a resize or orientationchange event that leaves the window with geometry g:
\* the debounced handleResize restarts its timer
resizeEvent(g) ==
    /\ phase = "mounted"
    /\ win' = g
    /\ resizeTimer' = simpleDebounce(resizeTimer)
    /\ Recorded([bursts[1] EXCEPT
                   !.resizes = IF resizeTimer THEN more(@) ELSE 1,
                   !.reads = IF resizeTimer THEN @ ELSE 0])
    /\ Observed("resizeEvent") /\ NoCallback
    /\ UNCHANGED << phase, rawVars, syncedVars, componentMightHaveUpdated,
                    frameVars, idleTimer, scrollsSinceTick >>

\* handleResize that overwrites the last-synced copy as well
handleResizeSynced ==
    /\ resizeTimer
    /\ resizeTimer' = FALSE
    /\ dimensionsState' = getClientDimensions(win)
    /\ lastSyncedDimensionsState' = getClientDimensions(win)
    /\ componentMightHaveUpdated' = TRUE
    /\ Recorded([bursts[1] EXCEPT !.reads = more(@)])
    /\ Observed("handleResize") /\ NoCallback
    /\ UNCHANGED << phase, envVars, scrollState, lastSyncedScrollState,
                    memoScroll, memoDimensions, frameVars,
                    idleTimer, scrollsSinceTick >>

\* the timer of the debounced handleResize runs out: the handler's body runs
handleResize ==
    /\ resizeTimer
    /\ resizeTimer' = FALSE
    /\ dimensionsState' = getClientDimensions(win)
    /\ componentMightHaveUpdated' = TRUE
    /\ Recorded([bursts[1] EXCEPT !.reads = more(@)])
    /\ Observed("handleResize") /\ NoCallback
    /\ UNCHANGED << phase, envVars, scrollState, syncedVars, frameVars,
                    idleTimer, scrollsSinceTick >>

\* the timer of updateOnIdle runs out: its body runs with the arguments of
\* the last call; onIdledUpdateGiven: props.onIdledUpdate is a function then
updateOnIdle(onIdledUpdateGiven) ==
    /\ idleTimer # <<>>
    /\ idleTimer' = <<>>
    /\ onIdledUpdateCalls' = IF onIdledUpdateGiven THEN idleTimer ELSE <<>>
    /\ onUpdateCalls' = <<>>
    /\ delivered' = delivered
    /\ copied' = {}
    /\ Recorded([bursts[1] EXCEPT
                   !.idles = IF onIdledUpdateGiven THEN more(@) ELSE @])
    /\ Observed("updateOnIdle")
    /\ UNCHANGED << phase, envVars, rawVars, syncedVars,
                    componentMightHaveUpdated, frameVars, resizeTimer,
                    scrollsSinceTick >>

\* an animation frame runs tick; outcome is what the consumer's onUpdate does
\* if syncState invokes it
tick(outcome) ==
    /\ pendingFrames > 0
    /\ LET synced == IF componentMightHaveUpdated
                     THEN syncState(collector)
                     ELSE [ lastSyncedScrollState |-> lastSyncedScrollState,
                            lastSyncedDimensionsState |-> lastSyncedDimensionsState,
                            memoScroll |-> memoScroll,
                            memoDimensions |-> memoDimensions,
                            copied |-> {},
                            onUpdate |-> <<>>,
                            updateOnIdle |-> <<>> ]
           called == synced.onUpdate # <<>>
           \* the request that runs is no longer pending and this.tickId, which
           \* still holds its id, names no pending request
           running == pendingFrames - 1
           \* componentWillUnmount inside onUpdate cancels that id
           afterOnUpdate == IF outcome = "unmount"
                            THEN cancelFrame(running, FALSE) ELSE running
       IN  /\ called \/ outcome = "return"
           /\ outcome = "unmount" => phase = "mounted"
           /\ lastSyncedScrollState' = synced.lastSyncedScrollState
           /\ lastSyncedDimensionsState' = synced.lastSyncedDimensionsState
           /\ memoScroll' = synced.memoScroll
           /\ memoDimensions' = synced.memoDimensions
           /\ onUpdateCalls' = synced.onUpdate
           /\ delivered' = IF called
                           THEN << synced.onUpdate[1].viewport >> ELSE delivered
           /\ copied' = synced.copied
           /\ onIdledUpdateCalls' = <<>>
           /\ phase' = IF outcome = "unmount" THEN "unmounted" ELSE phase
           /\ IF outcome = "throw"
              THEN \* the exception leaves syncState and tick
                   /\ Recorded([bursts[1] EXCEPT !.lastOnUpdate = synced.onUpdate])
                   /\ idleTimer' = idleTimer
                   /\ componentMightHaveUpdated' = componentMightHaveUpdated
                   /\ pendingFrames' = afterOnUpdate
                   /\ tickIdLive' = FALSE
              ELSE /\ Recorded(
                        IF synced.updateOnIdle = <<>>
                        THEN bursts[1]
                        ELSE [bursts[1] EXCEPT
                                !.publications = IF idleTimer # <<>>
                                                 THEN more(@) ELSE 1,
                                !.idles = IF idleTimer # <<>> THEN @ ELSE 0,
                                !.lastOnUpdate = synced.onUpdate])
                   /\ idleTimer' = IF synced.updateOnIdle # <<>>
                                   THEN debounceOnUpdate(idleTimer,
                                                         synced.updateOnIdle[1])
                                   ELSE idleTimer
                   /\ componentMightHaveUpdated' = FALSE
                   /\ pendingFrames' = afterOnUpdate + 1
                   /\ tickIdLive' = TRUE
    /\ scrollsSinceTick' = 0
    /\ Observed("tick")
    /\ UNCHANGED << envVars, rawVars, resizeTimer >>

Next ==
    \/ componentDidMount
    \/ componentWillUnmount
    \/ \E x \in ScrollXs, y \in ScrollYs : handleScroll(x, y)
    \/ \E g \in Geometries : resizeEvent(g)
    \/ handleResize
    \/ \E onIdledUpdateGiven \in BOOLEAN : updateOnIdle(onIdledUpdateGiven)
    \/ \E outcome \in Outcomes : tick(outcome)

\* the collector with consumer callbacks that do not throw
Spec == Init /\ [][Next]_vars

\* the sampler alone: a mounted collector that receives scroll events only
NextSampler ==
    \/ componentDidMount
    \/ \E x \in ScrollXs, y \in SampleYs : handleScroll(x, y)

SpecSampler == Init /\ [][NextSampler]_vars

NextFaults ==
    \/ Next
    \/ \E outcome \in Faults : tick(outcome)

\* the collector with consumer callbacks that may throw
SpecFaults == Init /\ [][NextFaults]_vars

\* horizontal scroll offsets of a page that scrolls vertically only
NoScrollXs == {0}

\* the collector of a page that scrolls vertically only, with an
\* onIdledUpdate prop, and with the debounce timers observed
NextBursts ==
    \/ componentDidMount
    \/ componentWillUnmount
    \/ \E x \in NoScrollXs, y \in ScrollYs : handleScroll(x, y)
    \/ \E g \in Geometries : resizeEvent(g)
    \/ handleResize
    \/ updateOnIdle(TRUE)
    \/ \E outcome \in Outcomes : tick(outcome)

SpecBursts == InitObserved /\ [][NextBursts]_vars

\* the host runs a requested animation frame
animationFrame == \E outcome \in Outcomes : tick(outcome)

\* the collector of a page that scrolls vertically only, up to the moment
\* its idle timer runs out
NextFrames ==
    \/ componentDidMount
    \/ componentWillUnmount
    \/ \E x \in NoScrollXs, y \in ScrollYs : handleScroll(x, y)
    \/ \E g \in Geometries : resizeEvent(g)
    \/ handleResize
    \/ animationFrame

\* that collector, with consumer callbacks that do not throw, in a host that
\* keeps delivering the animation frames requested of it
SpecFrames == Init /\ [][NextFrames]_vars /\ WF_vars(animationFrame)

(***************************************************************************)
(* Properties.                                                             *)
(***************************************************************************)
\* the last operation was a handleScroll; its sample is (scrollState.x,
\* scrollState.y), the state it found is prev.scrollState
Sampled == lastOp = "handleScroll"

\* C4: in every raw scroll state at most one of isScrollingUp/isScrollingDown
\* and at most one of isScrollingLeft/isScrollingRight is true, and once a
\* handleScroll has run exactly one flag of each pair is true
\* (no tick runs in the sampler alone: scrollsSinceTick counts every sample)
C4_DirectionFlagsExclusive ==
    /\ ~(scrollState.isScrollingUp /\ scrollState.isScrollingDown)
    /\ ~(scrollState.isScrollingLeft /\ scrollState.isScrollingRight)
    /\ scrollsSinceTick >= 1 =>
          /\ scrollState.isScrollingDown = ~scrollState.isScrollingUp
          /\ scrollState.isScrollingRight = ~scrollState.isScrollingLeft

\* C4 witness: two samples have run and the last one made the flags
\* up and right
C4_Witness ==
    /\ Sampled
    /\ scrollsSinceTick >= 2
    /\ scrollState.isScrollingUp /\ ~scrollState.isScrollingDown
    /\ scrollState.isScrollingRight /\ ~scrollState.isScrollingLeft

\* the last operation left the scroll fields named as it found them
KeepsFields(fields) ==
    \A f \in fields : scrollState[f] = prev.scrollState[f]

\* C5 as claimed: a sample whose y equals the previous y leaves isScrollingUp,
\* isScrollingDown, yTurn and yDTurn unchanged from every reachable state, the
\* initial one included, and likewise for x
C5_ZeroDeltaKeepsAll ==
    Sampled =>
      /\ scrollState.y = prev.scrollState.y =>
            KeepsFields({"isScrollingUp", "isScrollingDown", "yTurn", "yDTurn"})
      /\ scrollState.x = prev.scrollState.x =>
            KeepsFields({"isScrollingLeft", "isScrollingRight", "xTurn", "xDTurn"})

\* C5 amended: a sample whose y equals the previous y leaves isScrollingUp,
\* yTurn and yDTurn unchanged from every reachable state; it leaves
\* isScrollingDown unchanged too once a handleScroll has run before, while the
\* first sample after construction turns isScrollingDown from false to true;
\* likewise for x with isScrollingLeft, xTurn, xDTurn and isScrollingRight
C5_ZeroDeltaKeepsDirection ==
    Sampled =>
      /\ scrollState.y = prev.scrollState.y =>
            /\ KeepsFields({"isScrollingUp", "yTurn", "yDTurn"})
            /\ IF prev.scrollsSinceTick >= 1
               THEN KeepsFields({"isScrollingDown"})
               ELSE ~prev.scrollState.isScrollingDown /\ scrollState.isScrollingDown
      /\ scrollState.x = prev.scrollState.x =>
            /\ KeepsFields({"isScrollingLeft", "xTurn", "xDTurn"})
            /\ IF prev.scrollsSinceTick >= 1
               THEN KeepsFields({"isScrollingRight"})
               ELSE ~prev.scrollState.isScrollingRight /\ scrollState.isScrollingRight

\* C5 witness: a sample with the previous y and another x arrived while the
\* page was scrolling up, with a turn and a delta that are not zero
C5_Witness ==
    /\ Sampled
    /\ prev.scrollsSinceTick >= 1
    /\ scrollState.y = prev.scrollState.y
    /\ scrollState.x # prev.scrollState.x
    /\ scrollState.isScrollingUp
    /\ scrollState.yTurn # 0
    /\ scrollState.yDTurn # 0

\* C6: a sample at position P that flips an axis's left/up flag sets the
\* axis's turn coordinate to P and its delta-since-turn to 0; a sample that
\* leaves the flag as it was keeps the turn coordinate; and no operation but
\* handleScroll changes a turn coordinate
C6_TurnOnFlipOnly ==
    /\ Sampled =>
          /\ IF scrollState.isScrollingUp # prev.scrollState.isScrollingUp
             THEN scrollState.yTurn = scrollState.y /\ scrollState.yDTurn = 0
             ELSE scrollState.yTurn = prev.scrollState.yTurn
          /\ IF scrollState.isScrollingLeft # prev.scrollState.isScrollingLeft
             THEN scrollState.xTurn = scrollState.x /\ scrollState.xDTurn = 0
             ELSE scrollState.xTurn = prev.scrollState.xTurn
    /\ ~Sampled => KeepsFields({"xTurn", "yTurn"})

\* C6 witness: a sample flipped the vertical direction at a position that is
\* not the previous turn, and kept the horizontal one while x moved
C6_Witness ==
    /\ Sampled
    /\ scrollState.isScrollingUp # prev.scrollState.isScrollingUp
    /\ scrollState.yTurn # prev.scrollState.yTurn
    /\ scrollState.isScrollingLeft = prev.scrollState.isScrollingLeft
    /\ scrollState.x # prev.scrollState.x

\* the scroll states of the scenario y = 50, y = 30, y = 30 at x = 0
AtY50 ==
    [ x |-> 0, y |-> 50,
      isScrollingUp |-> FALSE, isScrollingDown |-> TRUE,
      isScrollingLeft |-> FALSE, isScrollingRight |-> TRUE,
      xTurn |-> 0, yTurn |-> 0,
      xDTurn |-> 0, yDTurn |-> 50 ]

AtY30 ==
    [ x |-> 0, y |-> 30,
      isScrollingUp |-> TRUE, isScrollingDown |-> FALSE,
      isScrollingLeft |-> FALSE, isScrollingRight |-> TRUE,
      xTurn |-> 0, yTurn |-> 30,
      xDTurn |-> 0, yDTurn |-> 0 ]

\* the last operation sampled (x, y) in the scroll state s
SampledIn(s, x, y) ==
    /\ Sampled
    /\ prev.scrollState = s
    /\ scrollState.x = x /\ scrollState.y = y

\* C7 as claimed: from the initial scroll state the sample y = 50 gives
\* isScrollingUp false, yTurn 0, yDTurn 50; the sample y = 30 after it gives
\* isScrollingUp true, yTurn 50, yDTurn -20; a second sample y = 30 changes
\* none of them
C7_ScenarioTurnAt50 ==
    /\ SampledIn(createInitScrollState, 0, 50) =>
          /\ ~scrollState.isScrollingUp
          /\ scrollState.yTurn = 0 /\ scrollState.yDTurn = 50
    /\ SampledIn(AtY50, 0, 30) =>
          /\ scrollState.isScrollingUp
          /\ scrollState.yTurn = 50 /\ scrollState.yDTurn = -20
    /\ (Sampled /\ scrollState.y = 30 /\ prev.scrollState.y = 30
           /\ prev.scrollState.yTurn = 50 /\ prev.scrollState.yDTurn = -20) =>
          /\ scrollState.isScrollingUp = prev.scrollState.isScrollingUp
          /\ scrollState.yTurn = 50 /\ scrollState.yDTurn = -20

\* C7 amended: from the initial scroll state the sample y = 50 gives
\* isScrollingUp false, yTurn 0, yDTurn 50; the sample y = 30 after it gives
\* isScrollingUp true, yTurn 30 (the position of the sample that turned),
\* yDTurn 0; a second sample y = 30 changes none of them
C7_Scenario ==
    /\ SampledIn(createInitScrollState, 0, 50) => scrollState = AtY50
    /\ SampledIn(AtY50, 0, 30) => scrollState = AtY30
    /\ SampledIn(AtY30, 0, 30) => scrollState = AtY30

\* C7 witness: the third sample of the scenario has run
C7_Witness ==
    /\ SampledIn(AtY30, 0, 30)
    /\ scrollsSinceTick >= 2

\* the delta-since-turn fields of a scroll state are its distances to the turns
DeltaIsDistance(s) ==
    /\ s.xDTurn = s.x - s.xTurn
    /\ s.yDTurn = s.y - s.yTurn

\* C8: in every raw scroll state xDTurn = x - xTurn and yDTurn = y - yTurn,
\* and so it is in every snapshot onUpdate or onIdledUpdate receives
C8_DeltaIsDistanceToTurn ==
    /\ DeltaIsDistance(scrollState)
    /\ \A i \in DOMAIN onUpdateCalls :
           DeltaIsDistance(onUpdateCalls[i].viewport.scroll)
    /\ \A i \in DOMAIN onIdledUpdateCalls :
           DeltaIsDistance(onIdledUpdateCalls[i].viewport.scroll)

\* C8 witness: onIdledUpdate receives a snapshot whose turns and deltas are
\* not zero
C8_Witness ==
    /\ onIdledUpdateCalls # <<>>
    /\ onIdledUpdateCalls[1].viewport.scroll.yTurn # 0
    /\ onIdledUpdateCalls[1].viewport.scroll.xDTurn # 0

\* the last operation was a tick; onUpdateCalls are the invocations it made
Ticked == lastOp = "tick"

\* the last operation invoked onUpdate
Published == Ticked /\ onUpdateCalls # <<>>

\* two viewports are field-wise equal on both scroll and dimensions
SameViewport(a, b) ==
    /\ \A f \in ScrollFields : a.scroll[f] = b.scroll[f]
    /\ \A f \in DimensionFields : a.dimensions[f] = b.dimensions[f]

\* the state the collector was constructed with
ConstructedViewport ==
    [ scroll |-> createInitScrollState,
      dimensions |-> createInitDimensionsState(InitialGeometry) ]

\* the viewport the consumer holds after the deliveries d: the last delivered
\* one, the constructed one before any delivery
Held(d) == IF d = <<>> THEN ConstructedViewport ELSE d[1]

\* the raw state
RawViewport == [ scroll |-> scrollState, dimensions |-> dimensionsState ]

\* C1: no onUpdate invocation receives a snapshot field-wise equal, on scroll
\* and dimensions, to the one the previous invocation received, and the first
\* invocation none equal to the state the collector was constructed with
C1_NoEqualConsecutiveSnapshots ==
    \A i \in DOMAIN onUpdateCalls :
        ~SameViewport(onUpdateCalls[i].viewport,
                      IF i = 1 THEN Held(prev.delivered)
                      ELSE onUpdateCalls[i - 1].viewport)

\* C1 witness: after an earlier publication a tick publishes a snapshot with
\* the page back at the origin and with other dimensions
C1_Witness ==
    /\ Published
    /\ prev.delivered # <<>>
    /\ onUpdateCalls[1].viewport.scroll.x = 0
    /\ onUpdateCalls[1].viewport.scroll.y = 0
    /\ onUpdateCalls[1].dimensionsDidUpdate

\* C2: a tick that follows one or more handleScroll runs invokes onUpdate at
\* most once, and with the scroll state the last of them produced (tick leaves
\* scrollState as the last handleScroll left it)
C2_ScrollsCoalesced ==
    (Ticked /\ prev.scrollsSinceTick >= 1) =>
        /\ Len(onUpdateCalls) <= 1
        /\ \A i \in DOMAIN onUpdateCalls :
               /\ onUpdateCalls[i].viewport.scroll = scrollState
               /\ scrollState = prev.scrollState

\* C2 witness: a tick publishes after two or more handleScroll runs
C2_Witness ==
    /\ Published
    /\ prev.scrollsSinceTick >= 2
    /\ onUpdateCalls[1].scrollDidUpdate

\* C3 as claimed: a tick invokes onUpdate exactly once if it finds the dirty
\* flag set and not at all if it finds it clear
C3_OncePerDirtyTick ==
    Ticked =>
        Len(onUpdateCalls) = IF prev.componentMightHaveUpdated THEN 1 ELSE 0

\* C3 amended: a tick invokes onUpdate exactly once if it finds the dirty flag
\* set and the raw scroll or dimension state field-wise different from the
\* state published last (the constructed state before any publication), and
\* not at all otherwise
C3_OncePerChangedTick ==
    Ticked =>
        Len(onUpdateCalls) =
            IF /\ prev.componentMightHaveUpdated
               /\ ~SameViewport(RawViewport, Held(prev.delivered))
            THEN 1 ELSE 0

\* C3 witness: a tick finds the dirty flag set by a sample that changed
\* nothing, and invokes nothing
C3_Witness ==
    /\ Ticked
    /\ prev.componentMightHaveUpdated
    /\ prev.scrollsSinceTick >= 1
    /\ onUpdateCalls = <<>>

\* C9 as claimed: once the collector is unmounted no animation-frame request
\* is pending and no tick runs
C9_NoFrameAfterUnmount ==
    /\ phase = "unmounted" => pendingFrames = 0
    /\ prev.phase = "unmounted" => ~Ticked

\* C10 as claimed: once the collector is unmounted neither onUpdate nor
\* onIdledUpdate is invoked
C10_NoCallbackAfterUnmount ==
    prev.phase = "unmounted" =>
        /\ onUpdateCalls = <<>>
        /\ onIdledUpdateCalls = <<>>

\* C11 as claimed: while the collector is mounted, every tick leaves exactly
\* one animation-frame request pending and the dirty flag clear, a tick whose
\* onUpdate threw included
C11_FrameLoopSurvives ==
    (Ticked /\ phase = "mounted") =>
        /\ pendingFrames = 1
        /\ ~componentMightHaveUpdated

\* C12: the arguments the idle timer holds, and so every snapshot
\* onIdledUpdate is invoked with, are a snapshot onUpdate has received before:
\* the one it received last; and onIdledUpdate is invoked by the timer, in no
\* step that invokes onUpdate
C12_OnUpdateBeforeIdle ==
    /\ idleTimer # <<>> =>
          /\ delivered # <<>>
          /\ idleTimer[1].viewport = delivered[1]
    /\ \A i \in DOMAIN onIdledUpdateCalls :
          /\ prev.delivered # <<>>
          /\ onIdledUpdateCalls[i].viewport = prev.delivered[1]
    /\ onIdledUpdateCalls # <<>> => onUpdateCalls = <<>>

\* C12 witness: onIdledUpdate receives a snapshot, with the page scrolled and
\* the window resized, after onUpdate received it
C12_Witness ==
    /\ lastOp = "updateOnIdle"
    /\ onIdledUpdateCalls # <<>>
    /\ onIdledUpdateCalls[1].viewport.scroll.y # 0
    /\ onIdledUpdateCalls[1].viewport.dimensions.width = 800
    /\ delivered = << onIdledUpdateCalls[1].viewport >>

IsGeometryOf(d, w) ==
    /\ d.width = w.innerWidth /\ d.height = w.innerHeight
    /\ d.clientWidth = w.clientWidth /\ d.clientHeight = w.clientHeight
    /\ d.outerWidth = w.outerWidth /\ d.outerHeight = w.outerHeight
    /\ d.documentWidth \in {w.scrollWidth, w.offsetWidth, w.clientWidth}
    /\ \A e \in {w.scrollWidth, w.offsetWidth, w.clientWidth} : d.documentWidth >= e
    /\ d.documentHeight \in {w.scrollHeight, w.offsetHeight, w.clientHeight}
    /\ \A e \in {w.scrollHeight, w.offsetHeight, w.clientHeight} : d.documentHeight >= e

C15_IdentityFollowsContent ==
    /\ (Published /\ prev.delivered # <<>>) =>
          /\ ("scroll" \in copied) = onUpdateCalls[1].scrollDidUpdate
          /\ ("dimensions" \in copied) = onUpdateCalls[1].dimensionsDidUpdate
    /\ delivered # <<>> =>
          /\ memoScroll # <<>> /\ memoDimensions # <<>>
          /\ memoScroll[1].lastResult = delivered[1].scroll
          /\ memoDimensions[1].lastResult = delivered[1].dimensions

\* C15 witness: a publication after the first carries a scroll change alone:
\* its scroll side is a new object and its dimensions side is not
C15_Witness ==
    /\ Published
    /\ prev.delivered # <<>>
    /\ onUpdateCalls[1].scrollDidUpdate
    /\ ~onUpdateCalls[1].dimensionsDidUpdate
    /\ copied = {"scroll"}

\* C16: in every onUpdate invocation scrollDidUpdate is true exactly when the
\* scroll side of the snapshot differs field-wise from the scroll side of the
\* snapshot delivered before (from the initial scroll state in the first
\* invocation), dimensionsDidUpdate is true exactly when the dimensions side
\* differs likewise (from the dimensions the collector was constructed with),
\* and at least one of the two is true
C16_FlagsTellWhatChanged ==
    \A i \in DOMAIN onUpdateCalls :
        LET before == IF i = 1 THEN Held(prev.delivered)
                      ELSE onUpdateCalls[i - 1].viewport
            now == onUpdateCalls[i].viewport
        IN  /\ onUpdateCalls[i].scrollDidUpdate
                 = (\E f \in ScrollFields : now.scroll[f] # before.scroll[f])
            /\ onUpdateCalls[i].dimensionsDidUpdate
                 = (\E f \in DimensionFields :
                        now.dimensions[f] # before.dimensions[f])
            /\ onUpdateCalls[i].scrollDidUpdate
                 \/ onUpdateCalls[i].dimensionsDidUpdate

\* C16 witness: a publication after the first carries other dimensions and
\* the scroll state of the one before, with the page scrolled
C16_Witness ==
    /\ Published
    /\ prev.delivered # <<>>
    /\ ~onUpdateCalls[1].scrollDidUpdate
    /\ onUpdateCalls[1].dimensionsDidUpdate
    /\ onUpdateCalls[1].viewport.scroll.y # 0
    /\ onUpdateCalls[1].viewport.scroll = prev.delivered[1].scroll

\* the raw state of a mounted collector differs from what the consumer holds
Unpublished ==
    /\ phase = "mounted"
    /\ ~SameViewport(RawViewport, Held(delivered))

\* the consumer holds the raw state, or the collector is torn down
Settled ==
    \/ SameViewport(RawViewport, Held(delivered))
    \/ phase = "unmounted"

\* a tick that found the raw state different from what the consumer held
\* invoked onUpdate with a snapshot equal to the raw state
TickPublishesRaw ==
    (Ticked /\ ~SameViewport(RawViewport, Held(prev.delivered))) =>
        /\ Published
        /\ SameViewport(onUpdateCalls[1].viewport, RawViewport)

\* C17: as long as animation frames are delivered and no callback throws, no
\* change is lost: a tick that finds the raw state different from the last
\* published snapshot invokes onUpdate with the raw state, and whenever the
\* raw state of a mounted collector differs from the last published snapshot,
\* later the consumer holds the raw state (or the collector is torn down)
C17_NoChangeLost ==
    /\ []TickPublishesRaw
    /\ Unpublished ~> Settled

\* C17 witness: after an earlier publication, two or more scroll samples and
\* a resize changed the raw state, and a tick has published it
C17_Witness ==
    /\ Published
    /\ prev.delivered # <<>>
    /\ prev.scrollsSinceTick >= 2
    /\ onUpdateCalls[1].scrollDidUpdate
    /\ onUpdateCalls[1].dimensionsDidUpdate
    /\ SameViewport(delivered[1], RawViewport)

\* what the scheduler owns: the last-synced copies, the memo caches and the
\* frame request; with phase and the idle timer, what no handler writes
schedulerVars == << syncedVars, frameVars, phase, idleTimer >>

\* C18: a tick (syncState included) leaves the raw scroll and dimension state
\* as they are; handleScroll changes nothing but the raw scroll state and the
\* dirty flag, and the body of the debounced handleResize nothing but the raw
\* dimension state and the dirty flag (and its own timer, which has run out):
\* neither changes the last-synced copies or invokes a callback
C18_SingleWriter ==
    [][ /\ lastOp' = "tick" => UNCHANGED rawVars
        /\ lastOp' = "handleScroll" =>
              /\ UNCHANGED << dimensionsState, schedulerVars, resizeTimer >>
              /\ onUpdateCalls' = <<>> /\ onIdledUpdateCalls' = <<>>
        /\ lastOp' = "handleResize" =>
              /\ UNCHANGED << scrollState, schedulerVars >>
              /\ onUpdateCalls' = <<>> /\ onIdledUpdateCalls' = <<>>
      ]_vars

\* C18 witness: handleResize has changed the raw dimension state of a
\* scrolled page whose last-synced copies are still the constructed ones
C18_Witness ==
    /\ lastOp = "handleResize"
    /\ dimensionsState.width = 800
    /\ lastSyncedDimensionsState.width = 1024
    /\ scrollState.y # 0
    /\ lastSyncedScrollState = createInitScrollState
    /\ componentMightHaveUpdated

\* C19: in every state in which the dirty flag is not set, the raw scroll
\* state equals lastSyncedScrollState and the raw dimension state equals
\* lastSyncedDimensionsState, field by field
C19_CleanMeansSynced ==
    ~componentMightHaveUpdated =>
        /\ \A f \in ScrollFields : scrollState[f] = lastSyncedScrollState[f]
        /\ \A f \in DimensionFields :
               dimensionsState[f] = lastSyncedDimensionsState[f]

\* C19 witness: a tick has cleared the flag with the page scrolled and the
\* window resized, and the last-synced copies hold both changes
C19_Witness ==
    /\ Ticked
    /\ prev.componentMightHaveUpdated
    /\ ~componentMightHaveUpdated
    /\ scrollState.y # 0
    /\ lastSyncedScrollState.y = scrollState.y
    /\ dimensionsState.width = 800
    /\ lastSyncedDimensionsState.width = 800

\* C20: in every raw scroll state the delta-since-turn agrees in sign with the
\* direction flags: isScrollingUp implies yDTurn <= 0, isScrollingDown implies
\* yDTurn >= 0, isScrollingLeft implies xDTurn <= 0 and isScrollingRight
\* implies xDTurn >= 0
C20_DeltaSignFollowsDirection ==
    /\ scrollState.isScrollingUp => scrollState.yDTurn <= 0
    /\ scrollState.isScrollingDown => scrollState.yDTurn >= 0
    /\ scrollState.isScrollingLeft => scrollState.xDTurn <= 0
    /\ scrollState.isScrollingRight => scrollState.xDTurn >= 0

\* C20 witness: a sample has moved the page further up from where it turned
\* upwards, away from the origin, and to the right of where it started
C20_Witness ==
    /\ Sampled
    /\ scrollState.isScrollingUp /\ scrollState.yDTurn < 0
    /\ scrollState.yTurn # 0
    /\ scrollState.isScrollingRight /\ scrollState.xDTurn > 0

=============================================================================
